---------------------------- MODULE Spec2Model ----------------------------
(***************************************************************************)
(* State-machine model of the TodoApp component (TodoApp.jsx) and of the   *)
(* localStorage item "tasks" it loads from and saves to.                   *)
(*                                                                         *)
(* One action stands for one event handled to completion: the handler,    *)
(* the re-render React performs for the state it set, and the effects of   *)
(* that render (the save effect runs whenever the `tasks` array is a new   *)
(* array object, which every setTasks call of this component produces).    *)
(*                                                                         *)
(* Strings the code inspects (task text) are sequences of characters, so   *)
(* that trim() is computed.  The stored item is a model of the JSON text,  *)
(* distinct from the in-memory array, so that JSON.parse / JSON.stringify  *)
(* are conversions.                                                        *)
(***************************************************************************)
EXTENDS Integers, Sequences, FiniteSets, TLC

VARIABLES
    phase,            \* "unmounted" | "rendered" (first render committed, its
                      \* effects pending) | "mounted" | "crashed" (a render threw)
    storage,          \* localStorage item under the key "tasks"
    tasks,            \* useState([])        : the in-memory collection
    newTask,          \* useState('')        : add form, text
    selectedCategory, \* useState('Personal'): add form, category
    dueDate,          \* useState('')        : add form, date
    dueTime,          \* useState('')        : add form, time
    editingTaskId,    \* useState(null)      : id being edited, NoId if none
    editTaskText,     \* useState('')        : edit form, text
    editDueDate,      \* useState('')        : edit form, date
    editDueTime,      \* useState('')        : edit form, time
    activeFilter,     \* useState('All')     : filter selector
    isFirstRender,    \* useRef(true)
    clock,            \* the reading Date.now() returns
    prevSession,      \* collection held when the previous session ended
    events,           \* number of events handled so far
    loads,            \* times the load effect ran since the page was opened
    lastOp            \* the event handled last (history)

vars == <<phase, storage, tasks, newTask, selectedCategory, dueDate, dueTime,
          editingTaskId, editTaskText, editDueDate, editDueTime, activeFilter,
          isFirstRender, clock, prevSession, events, loads, lastOp>>

formVars == <<newTask, selectedCategory, dueDate, dueTime>>
editVars == <<editingTaskId, editTaskText, editDueDate, editDueTime>>

----------------------------------------------------------------------------
(* Bounds of the exploration *)

MaxClock == 2      \* clock readings 1..MaxClock
MaxEvents == 7     \* events handled in one run (mounts and page closes included)

----------------------------------------------------------------------------
(* Values *)

Null == "null"     \* JavaScript null, for dueDate / dueTime
NoId == 0 - 1      \* editingTaskId === null

CATEGORIES == <<"Personal", "Work", "Shopping", "Health", "Finance", "Other">>

FILTERS == <<"All">> \o CATEGORIES

\* the options picked in the explored runs
CategoryChoices == {CATEGORIES[1], CATEGORIES[2]}

FilterChoices == {FILTERS[1], FILTERS[2], FILTERS[3]}

\* Values typed into the text inputs: '', ' ', 'a', ' b'
Texts == {<<>>, <<" ">>, <<" ", "b">>}

\* Values of the date and time pickers
Dates == {"", "2025-12-01"}

Times == {"", "09:00"}

Ids == 0..MaxClock

----------------------------------------------------------------------------
(* String.prototype.trim *)

IsSpace(c) == c = " "

RECURSIVE TrimStart(_)
TrimStart(s) ==
    IF s = <<>> THEN <<>>
    ELSE IF IsSpace(Head(s)) THEN TrimStart(Tail(s)) ELSE s

RECURSIVE TrimEnd(_)
TrimEnd(s) ==
    IF s = <<>> THEN <<>>
    ELSE IF IsSpace(s[Len(s)]) THEN TrimEnd(SubSeq(s, 1, Len(s) - 1)) ELSE s

trim(s) == TrimEnd(TrimStart(s))

\* x || null
OrNull(x) == IF x = "" THEN Null ELSE x

\* x || ''
OrEmpty(x) == IF x = Null \/ x = "" THEN "" ELSE x

----------------------------------------------------------------------------
(* localStorage item and JSON *)

NoItem == [kind |-> "none"]                       \* getItem returns null

EmptyString == [kind |-> "string", chars |-> "empty"]

Garbage == [kind |-> "string", chars |-> "not json"]

JsonText(v, pad) == [kind |-> "string", chars |-> "json", pad |-> pad, value |-> v]

JsonArray(members) == [t |-> "array", items |-> members]

JsonNull == [t |-> "null"]

JsonObject == [t |-> "object"]

JsonNumber == [t |-> "number"]

\* a task as a JSON object: the member values in the order JSON.stringify emits
EncodeTask(task) ==
    <<task.id, task.text, task.completed, task.category, task.dueDate, task.dueTime>>

\* the members of the due date and the due time read in the other's place
DecodeTaskSwapped(m) ==
    [id |-> m[1], text |-> m[2], completed |-> m[3], category |-> m[4],
     dueDate |-> m[6], dueTime |-> m[5]]

DecodeTask(m) ==
    [id |-> m[1], text |-> m[2], completed |-> m[3], category |-> m[4],
     dueDate |-> m[5], dueTime |-> m[6]]

JSONstringify(ts) ==
    JsonText(JsonArray([i \in DOMAIN ts |-> EncodeTask(ts[i])]), FALSE)

\* JSON.parse: throws on text that is not JSON
JSONparse(s) ==
    IF s.chars # "json" THEN [ok |-> FALSE]
    ELSE IF s.value.t = "array"
         THEN [ok |-> TRUE, isArray |-> TRUE,
               array |-> [i \in DOMAIN s.value.items |-> DecodeTask(s.value.items[i])]]
         ELSE [ok |-> TRUE, isArray |-> FALSE]

\* if (savedTasks)
Truthy(s) == s # NoItem /\ s # EmptyString


----------------------------------------------------------------------------
(* Initial state: nothing mounted yet, the item holds what an earlier      *)
(* session or anything else on the origin left under the key.              *)

\* a task saved by an earlier session (its id is an earlier clock reading)
StoredTask ==
    [id |-> 0, text |-> <<"a">>, completed |-> TRUE, category |-> "Work",
     dueDate |-> Null, dueTime |-> "09:00"]

\* a record no session of this component wrote: text ' ', a category that
\* is not among the options.  The load effect hands whatever array
\* JSON.parse returns to setTasks.
ForeignTask ==
    [id |-> 0, text |-> <<" ">>, completed |-> FALSE, category |-> "Urgent",
     dueDate |-> Null, dueTime |-> Null]

InitialStorage ==
    { NoItem, EmptyString, Garbage,
      JsonText(JsonNull, FALSE), JsonText(JsonObject, FALSE), JsonText(JsonNumber, FALSE),
      JsonText(JsonArray(<<>>), FALSE),
      JsonText(JsonArray(<<EncodeTask(StoredTask)>>), FALSE),
      JsonText(JsonArray(<<EncodeTask(StoredTask)>>), TRUE),
      JsonText(JsonArray(<<EncodeTask(ForeignTask)>>), FALSE) }

NoSession == [ended |-> FALSE, tasks |-> <<>>]

\* name: the handler; id: its argument; hit: a task has that id;
\* ok: the handler did not return early
Op(name, id, hit, ok) == [name |-> name, id |-> id, hit |-> hit, ok |-> ok]

\* one more event is handled, within the explored run length
Handled == events < MaxEvents /\ events' = events + 1

\* the values useState / useRef are given at lines 33-63
FreshComponent ==
    /\ tasks = <<>>
    /\ newTask = <<>>
    /\ editingTaskId = NoId
    /\ editTaskText = <<>>
    /\ editDueDate = ""
    /\ editDueTime = ""
    /\ selectedCategory = "Personal"
    /\ dueDate = ""
    /\ dueTime = ""
    /\ activeFilter = "All"
    /\ isFirstRender = TRUE

Init ==
    /\ phase = "unmounted"
    /\ storage \in InitialStorage
    /\ FreshComponent
    /\ clock = 1
    /\ prevSession = NoSession
    /\ events = 0
    /\ loads = 0
    /\ lastOp = Op("init", NoId, FALSE, TRUE)

----------------------------------------------------------------------------
(* Effects *)

\* the effect reading the item without handing it to setTasks
LoadEffectSkips(item) ==
    [set |-> FALSE, isArray |-> TRUE, array |-> <<>>]

\* useEffect(..., []) at lines 71-81: what the load effect passes to setTasks.
\* set: setTasks was called; isArray: the value is an array; array: its tasks.
LoadEffect(item) ==
    IF Truthy(item)
    THEN LET parsed == JSONparse(item) IN
         IF parsed.ok
         THEN IF parsed.isArray
              THEN [set |-> TRUE, isArray |-> TRUE, array |-> parsed.array]
              ELSE [set |-> TRUE, isArray |-> FALSE, array |-> <<>>]
         ELSE [set |-> FALSE, isArray |-> TRUE, array |-> <<>>]   \* console.error
    ELSE [set |-> FALSE, isArray |-> TRUE, array |-> <<>>]

\* the effect written with the array of the render before (a stale closure)
SaveEffectStale(first, ts, item) ==
    IF first THEN item ELSE JSONstringify(tasks)

\* the effect written without the isFirstRender guard
SaveEffectUnguarded(first, ts, item) == JSONstringify(ts)

\* useEffect(..., [tasks]) at lines 90-99: the item after the effect ran for
\* a render in which `tasks` is ts and isFirstRender.current is first.
SaveEffect(first, ts, item) ==
    IF first THEN item ELSE JSONstringify(ts)

\* The render body reads tasks.length / tasks.filter / filteredTasks.map
\* (lines 354, 365, 374, 389): a value that is no array throws there.
RenderThrows(loaded) == loaded.set /\ ~loaded.isArray

----------------------------------------------------------------------------
(* Mount.  React renders the component with the initial state and commits *)
(* it; the effects of that render run afterwards, in the order written:    *)
(* the load effect, then the save effect (which only clears the flag).     *)
(* setTasks in the load effect re-renders, and the save effect of the      *)
(* re-render writes the loaded array back.  React runs the effects of a    *)
(* render before it handles the update of any later event, so the handlers *)
(* below act on a mounted component.                                       *)

Mount ==
    /\ phase = "unmounted"
    /\ phase' = "rendered"
    /\ Handled
    /\ lastOp' = Op("render", NoId, FALSE, TRUE)
    /\ UNCHANGED <<storage, tasks, formVars, editVars, activeFilter, isFirstRender,
                   clock, prevSession, loads>>

mountEffects ==
    /\ phase = "rendered"
    /\ LET loaded == LoadEffect(storage)
           \* the save effect of the first render only clears the flag
           afterFirst == SaveEffect(isFirstRender, tasks, storage)
       IN
       /\ loads' = loads + 1
       /\ isFirstRender' = FALSE
       /\ IF RenderThrows(loaded)
          THEN /\ phase' = "crashed"
               /\ tasks' = <<>>
               /\ storage' = afterFirst
          ELSE /\ phase' = "mounted"
               /\ tasks' = IF loaded.set THEN loaded.array ELSE tasks
               /\ storage' = IF loaded.set
                             THEN SaveEffect(FALSE, loaded.array, afterFirst)
                             ELSE afterFirst
    /\ lastOp' = Op("mount", NoId, prevSession.ended, TRUE)   \* hit: a restart
    /\ UNCHANGED <<formVars, editVars, activeFilter, clock, prevSession, events>>

\* The page is closed or reloaded: the component state is gone, the item stays.
\* A reload never fits within one clock reading.
closeSession ==
    /\ phase # "unmounted"
    /\ clock < MaxClock
    /\ clock' = clock + 1
    /\ phase' = "unmounted"
    /\ prevSession' = [ended |-> phase = "mounted", tasks |-> tasks]
    /\ tasks' = <<>>
    /\ newTask' = <<>>
    /\ editingTaskId' = NoId
    /\ editTaskText' = <<>>
    /\ editDueDate' = ""
    /\ editDueTime' = ""
    /\ selectedCategory' = "Personal"
    /\ dueDate' = ""
    /\ dueTime' = ""
    /\ activeFilter' = "All"
    /\ isFirstRender' = TRUE
    /\ Handled
    /\ loads' = 0
    /\ lastOp' = Op("close", NoId, FALSE, TRUE)
    /\ UNCHANGED storage

\* Time passes between two events.
Tick ==
    /\ clock < MaxClock
    /\ clock' = clock + 1
    /\ UNCHANGED <<phase, storage, tasks, formVars, editVars, activeFilter,
                   isFirstRender, prevSession, events, loads, lastOp>>

----------------------------------------------------------------------------
(* Form inputs (onChange handlers, lines 262, 269, 290, 305, 331) *)

setNewTask(v) ==
    /\ phase = "mounted"
    /\ newTask' = v
    /\ Handled
    /\ lastOp' = Op("input", NoId, FALSE, TRUE)
    /\ UNCHANGED <<phase, storage, tasks, selectedCategory, dueDate, dueTime,
                   editVars, activeFilter, isFirstRender, clock, prevSession, loads>>

setSelectedCategory(c) ==
    /\ phase = "mounted"
    /\ selectedCategory' = c
    /\ Handled
    /\ lastOp' = Op("input", NoId, FALSE, TRUE)
    /\ UNCHANGED <<phase, storage, tasks, newTask, dueDate, dueTime,
                   editVars, activeFilter, isFirstRender, clock, prevSession, loads>>

setDueDate(d) ==
    /\ phase = "mounted"
    /\ dueDate' = d
    /\ Handled
    /\ lastOp' = Op("input", NoId, FALSE, TRUE)
    /\ UNCHANGED <<phase, storage, tasks, newTask, selectedCategory, dueTime,
                   editVars, activeFilter, isFirstRender, clock, prevSession, loads>>

setDueTime(t) ==
    /\ phase = "mounted"
    /\ dueTime' = t
    /\ Handled
    /\ lastOp' = Op("input", NoId, FALSE, TRUE)
    /\ UNCHANGED <<phase, storage, tasks, newTask, selectedCategory, dueDate,
                   editVars, activeFilter, isFirstRender, clock, prevSession, loads>>

setActiveFilter(f) ==
    /\ phase = "mounted"
    /\ activeFilter' = f
    /\ Handled
    /\ lastOp' = Op("filter", NoId, FALSE, TRUE)
    /\ UNCHANGED <<phase, storage, tasks, formVars, editVars, isFirstRender,
                   clock, prevSession, loads>>


----------------------------------------------------------------------------
(* Task operations.  Each handler computes the next array from the `tasks` *)
(* of the current render; setTasks with that new array re-renders and the  *)
(* save effect of the re-render writes it.                                 *)

\* setTasks(next) followed by the re-render and its save effect
setTasks(next) ==
    /\ tasks' = next
    /\ storage' = SaveEffect(isFirstRender, next, storage)

\* the task built with the text trimmed
taskToAddTrimmed ==
    [id |-> clock, text |-> trim(newTask), completed |-> FALSE,
     category |-> selectedCategory, dueDate |-> OrNull(dueDate),
     dueTime |-> OrNull(dueTime)]

\* lines 123-130
taskToAdd ==
    [id |-> clock, text |-> newTask, completed |-> FALSE,
     category |-> selectedCategory, dueDate |-> OrNull(dueDate),
     dueTime |-> OrNull(dueTime)]

\* the check written without trim()
addRejectsUntrimmed == newTask = <<>>

\* line 120: if (newTask.trim() === '') return
addRejects == trim(newTask) = <<>>

\* lines 118-140
addTask ==
    /\ phase = "mounted"
    /\ Handled
    /\ IF addRejects
       THEN /\ lastOp' = Op("add", clock, FALSE, FALSE)
            /\ UNCHANGED <<tasks, storage, formVars>>
       ELSE /\ setTasks(tasks \o <<taskToAdd>>)
            \* clear the input, reset the category, clear date and time
            /\ newTask' = <<>>
            /\ selectedCategory' = "Personal"
            /\ dueDate' = ""
            /\ dueTime' = ""
            /\ lastOp' = Op("add", clock, FALSE, TRUE)
    /\ UNCHANGED <<phase, editVars, activeFilter, isFirstRender, clock, prevSession, loads>>

\* the map written without the comparison of ids
toggledAll(ts, id) ==
    [i \in DOMAIN ts |-> [ts[i] EXCEPT !.completed = ~ts[i].completed]]

\* tasks.map(task => task.id === id ? {...task, completed: !task.completed} : task)
toggled(ts, id) ==
    [i \in DOMAIN ts |->
        IF ts[i].id = id THEN [ts[i] EXCEPT !.completed = ~ts[i].completed]
        ELSE ts[i]]

HasId(ts, id) == \E i \in DOMAIN ts : ts[i].id = id

\* lines 152-158
toggleTask(id) ==
    /\ phase = "mounted"
    /\ setTasks(toggled(tasks, id))
    /\ Handled
    /\ lastOp' = Op("toggle", id, HasId(tasks, id), TRUE)
    /\ UNCHANGED <<phase, formVars, editVars, activeFilter, isFirstRender, clock,
                   prevSession, loads>>

\* tasks.filter(task => task.id !== id)
RECURSIVE without(_, _)
without(ts, id) ==
    IF ts = <<>> THEN <<>>
    ELSE IF Head(ts).id # id THEN <<Head(ts)>> \o without(Tail(ts), id)
         ELSE without(Tail(ts), id)

\* lines 168-170
deleteTask(id) ==
    /\ phase = "mounted"
    /\ setTasks(without(tasks, id))
    /\ Handled
    /\ lastOp' = Op("delete", id, HasId(tasks, id), TRUE)
    /\ UNCHANGED <<phase, formVars, editVars, activeFilter, isFirstRender, clock,
                   prevSession, loads>>

\* lines 179-184
startEditTask(id, currentText, currentDueDate, currentDueTime) ==
    /\ phase = "mounted"
    /\ editingTaskId' = id
    /\ editTaskText' = currentText
    /\ editDueDate' = OrEmpty(currentDueDate)
    /\ editDueTime' = OrEmpty(currentDueTime)
    /\ Handled
    /\ lastOp' = Op("startEdit", id, TRUE, TRUE)
    /\ UNCHANGED <<phase, storage, tasks, formVars, activeFilter, isFirstRender,
                   clock, prevSession, loads>>

\* tasks.filter(task => task.category === activeFilter), line 247
RECURSIVE filterByCategory(_, _)
filterByCategory(ts, c) ==
    IF ts = <<>> THEN <<>>
    ELSE IF Head(ts).category = c
         THEN <<Head(ts)>> \o filterByCategory(Tail(ts), c)
         ELSE filterByCategory(Tail(ts), c)

\* the function written without the test for 'All'
getFilteredTasksNoAll(ts, f) == filterByCategory(ts, f)

\* lines 243-248, for the collection ts and the selector f
getFilteredTasks(ts, f) ==
    IF f = "All" THEN ts ELSE filterByCategory(ts, f)

\* line 251
filteredTasks == getFilteredTasks(tasks, activeFilter)

\* getFilteredTasks, lines 243-248, as the positions it keeps
Shown(ts, f) == {i \in DOMAIN ts : f = "All" \/ ts[i].category = f}

\* the rows rendered as an edit form (line 391) and as a TodoItem (line 452)
EditRows == {i \in Shown(tasks, activeFilter) : tasks[i].id = editingTaskId}

ItemRows == Shown(tasks, activeFilter) \ EditRows

\* the edit form's onChange handlers, lines 397, 406, 421
setEditTaskText(v) ==
    /\ phase = "mounted"
    /\ EditRows # {}
    /\ editTaskText' = v
    /\ Handled
    /\ lastOp' = Op("input", NoId, FALSE, TRUE)
    /\ UNCHANGED <<phase, storage, tasks, formVars, editingTaskId, editDueDate,
                   editDueTime, activeFilter, isFirstRender, clock, prevSession, loads>>

setEditDueDate(d) ==
    /\ phase = "mounted"
    /\ EditRows # {}
    /\ editDueDate' = d
    /\ Handled
    /\ lastOp' = Op("input", NoId, FALSE, TRUE)
    /\ UNCHANGED <<phase, storage, tasks, formVars, editingTaskId, editTaskText,
                   editDueTime, activeFilter, isFirstRender, clock, prevSession, loads>>

setEditDueTime(t) ==
    /\ phase = "mounted"
    /\ EditRows # {}
    /\ editDueTime' = t
    /\ Handled
    /\ lastOp' = Op("input", NoId, FALSE, TRUE)
    /\ UNCHANGED <<phase, storage, tasks, formVars, editingTaskId, editTaskText,
                   editDueDate, activeFilter, isFirstRender, clock, prevSession, loads>>

\* line 191: if (editTaskText.trim() === '') return
updateRejects == trim(editTaskText) = <<>>

\* lines 193-200
updated(ts, id) ==
    [i \in DOMAIN ts |->
        IF ts[i].id = id
        THEN [ts[i] EXCEPT !.text = editTaskText,
                           !.dueDate = OrNull(editDueDate),
                           !.dueTime = OrNull(editDueTime)]
        ELSE ts[i]]

\* lines 190-207
updateTask(id) ==
    /\ phase = "mounted"
    /\ Handled
    /\ IF updateRejects
       THEN /\ lastOp' = Op("update", id, HasId(tasks, id), FALSE)
            /\ UNCHANGED <<tasks, storage, editVars>>
       ELSE /\ setTasks(updated(tasks, id))
            \* exit edit mode
            /\ editingTaskId' = NoId
            /\ editTaskText' = <<>>
            /\ editDueDate' = ""
            /\ editDueTime' = ""
            /\ lastOp' = Op("update", id, HasId(tasks, id), TRUE)
    /\ UNCHANGED <<phase, formVars, activeFilter, isFirstRender, clock, prevSession, loads>>

\* lines 212-217
cancelEdit ==
    /\ phase = "mounted"
    /\ editingTaskId' = NoId
    /\ editTaskText' = <<>>
    /\ editDueDate' = ""
    /\ editDueTime' = ""
    /\ Handled
    /\ lastOp' = Op("cancelEdit", NoId, FALSE, TRUE)
    /\ UNCHANGED <<phase, storage, tasks, formVars, activeFilter, isFirstRender,
                   clock, prevSession, loads>>

----------------------------------------------------------------------------
(* Next-state relation *)

Next ==
    \/ Mount
    \/ mountEffects
    \/ closeSession
    \/ Tick
    \/ \E v \in Texts : setNewTask(v)
    \/ \E c \in CategoryChoices : setSelectedCategory(c)
    \/ \E d \in Dates : setDueDate(d)
    \/ \E t \in Times : setDueTime(t)
    \/ \E f \in FilterChoices : setActiveFilter(f)
    \/ addTask
    \/ \E id \in Ids : toggleTask(id)
    \/ \E id \in Ids : deleteTask(id)
    \/ \E i \in ItemRows :
          startEditTask(tasks[i].id, tasks[i].text, tasks[i].dueDate, tasks[i].dueTime)
    \/ \E v \in Texts : setEditTaskText(v)
    \/ \E d \in Dates : setEditDueDate(d)
    \/ \E t \in Times : setEditDueTime(t)
    \/ \E id \in Ids : updateTask(id)
    \/ cancelEdit

Spec == Init /\ [][Next]_vars


----------------------------------------------------------------------------
(* Vocabulary of the properties *)

\* this step handles one event of the handler `name`
Handles(name) == events' = events + 1 /\ lastOp'.name = name

\* the text is empty once leading and trailing whitespace is removed
IsBlank(s) == \A i \in DOMAIN s : s[i] = " "

UniqueIds(ts) == \A i, j \in DOMAIN ts : i # j => ts[i].id # ts[j].id

\* the item is the JSON text of an array
IsArrayText(item) ==
    item.kind = "string" /\ item.chars = "json" /\ item.value.t = "array"

\* the item is the serialization of ts: same tasks, same order, same fields
Serializes(item, ts) ==
    /\ IsArrayText(item)
    /\ Len(item.value.items) = Len(ts)
    /\ \A i \in DOMAIN ts :
          LET m == item.value.items[i] IN
          /\ m[1] = ts[i].id
          /\ m[2] = ts[i].text
          /\ m[3] = ts[i].completed
          /\ m[4] = ts[i].category
          /\ m[5] = ts[i].dueDate
          /\ m[6] = ts[i].dueTime

\* the last event was a mutating operation that succeeded
MutationDone ==
    \/ lastOp.name = "add" /\ lastOp.ok
    \/ lastOp.name = "toggle" /\ lastOp.hit
    \/ lastOp.name = "update" /\ lastOp.ok /\ lastOp.hit
    \/ lastOp.name = "delete"

----------------------------------------------------------------------------
(* C1 *)

\* C1: in every reachable state no two tasks of the collection have the
\* same id.
C1_UniqueIds == UniqueIds(tasks)

----------------------------------------------------------------------------
(* C2 *)

\* C2: once a successful mutating operation (accepted add, toggle or update
\* that matched, delete) has completed, the item stored under "tasks" is the
\* serialization of the whole in-memory collection: same tasks, same order,
\* same field values.
C2_SavedAfterMutation ==
    (phase = "mounted" /\ MutationDone) => Serializes(storage, tasks)

\* a toggle that matched, on a collection of two tasks
C2_Witness ==
    /\ phase = "mounted"
    /\ lastOp.name = "toggle" /\ lastOp.hit
    /\ Len(tasks) = 2

----------------------------------------------------------------------------
(* C3 *)

\* C3: the collection the load yields at the next start of the application
\* equals, in content and order, the in-memory collection at the end of the
\* session before.
C3_PersistsAcrossSessions ==
    (lastOp.name = "mount" /\ prevSession.ended)
        => (phase = "mounted" /\ tasks = prevSession.tasks)

\* a restart that brings back a task added in the session before
C3_Witness ==
    /\ lastOp.name = "mount" /\ prevSession.ended
    /\ \E i \in DOMAIN tasks : tasks[i].id >= 1 /\ tasks[i].dueTime = "09:00"

----------------------------------------------------------------------------
(* C4 *)

\* C4: when the key is absent or holds anything but a serialized sequence of
\* tasks (unparseable text, or JSON of another shape), the collection after
\* the load is empty and the application goes on accepting operations.
C4_LoadSoftFails ==
    (lastOp.name = "mount" /\ ~IsArrayText(storage))
        => (phase = "mounted" /\ tasks = <<>>)

----------------------------------------------------------------------------
(* C5 *)

----------------------------------------------------------------------------
(* C6 *)

\* C6: an add or an update whose text is empty after trimming changes
\* nothing: the collection, the stored item and the rest of the state are
\* what they were before the call.
C6_BlankTextIsNoOp ==
    [][((Handles("add") /\ IsBlank(newTask))
          \/ (Handles("update") /\ IsBlank(editTaskText)))
         => /\ tasks' = tasks
            /\ storage' = storage
            /\ UNCHANGED <<phase, formVars, editVars, activeFilter, isFirstRender>>
            /\ ~lastOp'.ok]_vars

\* an update with the text ' ' on a task of the collection was turned down
C6_Witness ==
    /\ lastOp.name = "update" /\ ~lastOp.ok /\ lastOp.hit
    /\ editTaskText = <<" ">>
    /\ editingTaskId = lastOp.id

----------------------------------------------------------------------------
(* C7 *)

\* C7: an add whose text is not empty after trimming appends exactly one
\* task at the end, with completed = false, the chosen category, the text
\* as typed (untrimmed) and an empty date or time stored as null, and leaves
\* the tasks already there as they were; an add with blank text leaves the
\* size as it is.
C7_AddAppendsOne ==
    [][Handles("add")
         => IF IsBlank(newTask)
            THEN Len(tasks') = Len(tasks)
            ELSE /\ Len(tasks') = Len(tasks) + 1
                 /\ \A i \in DOMAIN tasks : tasks'[i] = tasks[i]
                 /\ LET new == tasks'[Len(tasks')] IN
                    /\ new.text = newTask
                    /\ new.completed = FALSE
                    /\ new.category = selectedCategory
                    /\ new.dueDate = (IF dueDate = "" THEN Null ELSE dueDate)
                    /\ new.dueTime = (IF dueTime = "" THEN Null ELSE dueTime)]_vars

\* a second task was appended, with untrimmed text, a chosen category,
\* no date and a time
C7_Witness ==
    /\ lastOp.name = "add" /\ lastOp.ok
    /\ Len(tasks) = 2
    /\ tasks[2].text = <<" ", "b">>
    /\ tasks[2].category = "Work"
    /\ tasks[2].dueDate = Null
    /\ tasks[2].dueTime = "09:00"

----------------------------------------------------------------------------
(* C8 *)

\* the positions at which two collections of the same length differ
Changed(before, after) == {i \in DOMAIN before : after[i] # before[i]}

\* C8: toggleCompletion(id) flips the completed flag of the task with that
\* id and changes no other field and no other task (so one task at most is
\* changed), and a second call with the same id gives back the collection
\* there was before the first.
C8_ToggleFlipsOneTask ==
    [][Handles("toggle")
         => LET id == lastOp'.id IN
            /\ Len(tasks') = Len(tasks)
            /\ Cardinality(Changed(tasks, tasks')) <= 1
            /\ \A i \in DOMAIN tasks :
                  IF tasks[i].id = id
                  THEN tasks'[i] = [tasks[i] EXCEPT !.completed = ~tasks[i].completed]
                  ELSE tasks'[i] = tasks[i]
            /\ toggled(tasks', id) = tasks]_vars

----------------------------------------------------------------------------
(* C9 *)

\* C9: an update with text that is not empty after trimming replaces text,
\* dueDate and dueTime (an empty one stored as null) on the task with the
\* matching id and leaves its id, category and completed, and every other
\* task, as they were (so one task at most is changed).
C9_UpdateReplacesOneTask ==
    [][(Handles("update") /\ ~IsBlank(editTaskText))
         => LET id == lastOp'.id IN
            /\ Len(tasks') = Len(tasks)
            /\ Cardinality(Changed(tasks, tasks')) <= 1
            /\ \A i \in DOMAIN tasks :
                  IF tasks[i].id = id
                  THEN /\ tasks'[i].text = editTaskText
                       /\ tasks'[i].dueDate = (IF editDueDate = "" THEN Null ELSE editDueDate)
                       /\ tasks'[i].dueTime = (IF editDueTime = "" THEN Null ELSE editDueTime)
                       /\ tasks'[i].id = tasks[i].id
                       /\ tasks'[i].category = tasks[i].category
                       /\ tasks'[i].completed = tasks[i].completed
                  ELSE tasks'[i] = tasks[i]]_vars

----------------------------------------------------------------------------
(* C10 *)

\* a toggle, or an update that was not turned down, with an id no task has
LookupMiss ==
    /\ Handles("toggle") \/ (Handles("update") /\ lastOp'.ok)
    /\ \A i \in DOMAIN tasks : tasks[i].id # lastOp'.id

\* C10 as stated: a toggle or an update with an id that matches no task
\* leaves the collection unchanged and does not modify the stored item.
C10_MissLeavesItemUntouched ==
    [][LookupMiss => (phase' = "mounted" /\ tasks' = tasks /\ storage' = storage)]_vars

\* C10 as amended: a toggle or an accepted update with an id that matches no
\* task raises no error and leaves the collection unchanged; the item is
\* written all the same, and holds the serialization of that unchanged
\* collection afterwards.
C10_MissRewritesSameCollection ==
    [][LookupMiss
         => (phase' = "mounted" /\ tasks' = tasks /\ Serializes(storage', tasks))]_vars

\* a toggle with an id no task has, on a collection that is not empty
C10_Witness ==
    /\ lastOp.name = "toggle" /\ ~lastOp.hit
    /\ Len(tasks) >= 1
    /\ \A i \in DOMAIN tasks : tasks[i].id # lastOp.id

----------------------------------------------------------------------------
(* C11 *)

\* C11: a delete leaves no task with the id it was given; once a delete has
\* removed a task, no later step (an add included) brings a task with that
\* id into the collection, and a toggle, update or delete that follows with
\* that id leaves the collection as it is.
C11_DeletedIdStaysGone ==
    [][/\ Handles("delete") => ~HasId(tasks', lastOp'.id)
       /\ (lastOp.name = "delete" /\ lastOp.hit) => ~HasId(tasks', lastOp.id)
       /\ (/\ lastOp.name = "delete"
           /\ Handles("toggle") \/ Handles("update") \/ Handles("delete")
           /\ lastOp'.id = lastOp.id) => tasks' = tasks]_vars

----------------------------------------------------------------------------
(* C12 *)

\* the k-th of the positions S, counted in increasing order
Nth(S, k) == CHOOSE i \in S : Cardinality({j \in S : j <= i}) = k

\* r holds the tasks ts has at the positions S, and no other, in the order
\* they have in ts
IsSubsequenceAt(r, ts, S) ==
    /\ Len(r) = Cardinality(S)
    /\ \A k \in 1..Len(r) : r[k] = ts[Nth(S, k)]

\* C12: for the collection of every reachable state and every selector, the
\* filter with "All" returns the whole collection (same tasks, same order)
\* and the filter with a category returns exactly the tasks of that
\* category, in the order they have in the collection; choosing a filter
\* changes neither the collection nor the stored item.
C12_FilterSelects ==
    /\ [](\A k \in DOMAIN FILTERS :
            LET f == FILTERS[k]
                r == getFilteredTasks(tasks, f)
            IN  IF f = "All"
                THEN r = tasks
                ELSE IsSubsequenceAt(r, tasks,
                        {i \in DOMAIN tasks : tasks[i].category = f}))
    /\ [][Handles("filter") => (tasks' = tasks /\ storage' = storage)]_vars

\* the filter 'Work' was chosen on a collection whose first and third task
\* are of that category and whose second is not
C12_Witness ==
    /\ lastOp.name = "filter"
    /\ activeFilter = "Work"
    /\ Len(tasks) = 3
    /\ tasks[1].category = "Work"
    /\ tasks[2].category = "Personal"
    /\ tasks[3].category = "Work"
    /\ filteredTasks = <<tasks[1], tasks[3]>>

----------------------------------------------------------------------------
(* C13 *)

\* the tasks the item holds, when it is the JSON text of an array
StoredTasks(item) ==
    IF IsArrayText(item) THEN JSONparse(item).array ELSE <<>>

\* C13: in every reachable state every task of the in-memory collection and
\* every task of the stored item has a text that is not empty after
\* trimming, the tasks that came in through the load included.
C13_TextNeverBlank ==
    /\ \A i \in DOMAIN tasks : trim(tasks[i].text) # <<>>
    /\ phase \in {"mounted", "crashed"}
          => \A i \in DOMAIN StoredTasks(storage) :
                trim(StoredTasks(storage)[i].text) # <<>>

----------------------------------------------------------------------------
(* C14 *)

----------------------------------------------------------------------------
(* C15 *)

\* an add, toggle or update keeps every task at its position
KeepsPositions ==
    \A i \in DOMAIN tasks : i \in DOMAIN tasks' /\ tasks'[i].id = tasks[i].id

\* a delete keeps the tasks with another id, in the order they had
KeepsOthersInOrder ==
    IsSubsequenceAt(tasks', tasks, {i \in DOMAIN tasks : tasks[i].id # lastOp'.id})

\* C15: no operation reorders tasks: an add, toggle or update leaves every
\* task at its position, and a delete takes out the one task with the
\* matching id and leaves the others in the order they had.
C15_OrderKept ==
    [][(Handles("add") \/ Handles("toggle") \/ Handles("update") \/ Handles("delete"))
         => IF Handles("delete")
            THEN KeepsOthersInOrder /\ Len(tasks') >= Len(tasks) - 1
            ELSE KeepsPositions]_vars

----------------------------------------------------------------------------
(* C16 *)

\* a step of one of the four operations on the collection
UserMutation ==
    Handles("add") \/ Handles("toggle") \/ Handles("update") \/ Handles("delete")

\* C16: when the item holds a serialized collection, no step other than an
\* add, toggle, update or delete changes the collection it denotes: the save
\* effect of the first render writes nothing (the empty collection of that
\* render is never stored over it), and once the effects of the mount have
\* run the in-memory collection is the stored one and the item written back
\* is its serialization.
C16_StartupKeepsSavedTasks ==
    [][(IsArrayText(storage) /\ ~UserMutation)
         => /\ IsArrayText(storage')
            /\ StoredTasks(storage') = StoredTasks(storage)
            /\ (phase = "rendered" /\ loads' = 1)
                  => /\ SaveEffect(isFirstRender, tasks, storage) = storage
                     /\ phase' = "mounted"
                     /\ tasks' = StoredTasks(storage)
                     /\ Serializes(storage', tasks')]_vars

\* the first mount of a session has loaded the stored task and written it
\* back
C16_Witness ==
    /\ lastOp.name = "mount" /\ ~prevSession.ended
    /\ phase = "mounted"
    /\ tasks = <<StoredTask>>
    /\ Serializes(storage, tasks)
    /\ ~isFirstRender

----------------------------------------------------------------------------
(* C17 *)

\* C17: in every reachable state at most one task of the collection matches
\* the editing id, so at most one row is shown as an edit form; after an
\* accepted update or a cancel no task is being edited.
C17_AtMostOneEdited ==
    /\ Cardinality({i \in DOMAIN tasks : tasks[i].id = editingTaskId}) <= 1
    /\ Cardinality(EditRows) <= 1
    /\ ((lastOp.name = "update" /\ lastOp.ok) \/ lastOp.name = "cancelEdit")
          => editingTaskId = NoId

============================================================================
